---- MODULE Spec2Model ----
(***************************************************************************)
(* Typical-days clustering as a MILP: the plain k-medoids model            *)
(* (k_medoids_milp.py) and the constrained model with total-value and      *)
(* peak-value preservation (k_medoids_constrained.py).                     *)
(*                                                                         *)
(* The state is one model object: the abstract model with its options,     *)
(* then the instance built from the caller's data (parameters, variables,  *)
(* constraints with their active flag, variables with their fixed flag),   *)
(* then the values a MILP solver loads into y, z and w.                    *)
(***************************************************************************)
EXTENDS Integers, FiniteSets, Sequences, TLC

VARIABLES
    pc,              \* "abstract" | "instance" | "error" | "solved" | "infeasible"
    kind,            \* "plain" (k_medoids_milp) | "constrained" (k_medoids_constrained)
    options,         \* m.options
    n_days,          \* m.n_days
    n_clusters,      \* m.n_clusters
    n_extreme_days,  \* m.n_extreme_days
    Properties,      \* m.Properties
    distance,        \* m.distance[i,j]
    x_daily_tot,     \* m.x_daily_tot[p,i]
    x_daily_max,     \* m.x_daily_max[p,i]
    x_max,           \* m.x_max[p]
    x_total,         \* m.x_total[p]
    rel_tol,         \* m.rel_tol[p], a fraction <<numerator, denominator>>
    min_peak_share,  \* m.min_peak_share[p], a fraction <<numerator, denominator>>
    active,          \* names of the constraints that are active
    fixed,           \* indices <<"w", p, i>> of the variables that are fixed
    y,               \* m.y[i]
    z,               \* m.z[i,j]
    w                \* m.w[p,i]

params == <<n_days, n_clusters, n_extreme_days, Properties, distance,
            x_daily_tot, x_daily_max, x_max, x_total, rel_tol, min_peak_share>>
vars == <<pc, kind, options, params, active, fixed, y, z, w>>

(***************************************************************************)
(* Bounds of the model and the input sets the data are drawn from.         *)
(***************************************************************************)
MaxDays == 3

CountInputs == (0 - 1)..MaxDays
ExtremeInputs == {0 - 1, 0, 1, 2}
PropertyNames == {"load"}
DistanceOffsets == {0, 1}
ProfileKinds == {"flat", "ramp"}
\* Tolerances as fractions <<numerator, denominator>>: exact (no error on the
\* total, the whole peak) or loose (half of either).
ToleranceInputs ==
    {[rel_tol |-> <<0, 1>>, min_peak_share |-> <<1, 1>>],
     [rel_tol |-> <<1, 2>>, min_peak_share |-> <<1, 2>>]}
Flags == [preserve_total_values : BOOLEAN, preserve_peak_values : BOOLEAN]

\* A variable that has no value yet (w is declared without initialize).
NoValue == 0 - 1

Abs(a) == IF a < 0 THEN 0 - a ELSE a

\* A day-to-day distance: |i - j| plus an offset (offset 0 gives a metric
\* with zero diagonal, offset 1 a matrix whose diagonal is not zero).
DistanceInput(n, off) ==
    [ij \in (1..n) \X (1..n) |-> Abs(ij[1] - ij[2]) + off]

\* A daily series of one property: constant, or growing with the day.
Profile(k, i) == IF k = "flat" THEN 1 ELSE i

ProfileInput(P, n, k) ==
    [pi \in P \X (1..n) |-> Profile(k, pi[2])]

RECURSIVE MaxOver(_, _)
MaxOver(f, S) ==
    LET e == CHOOSE e \in S : TRUE
    IN  IF S = {e} THEN f[e]
        ELSE LET r == MaxOver(f, S \ {e}) IN IF f[e] > r THEN f[e] ELSE r

\* The global maximum of each property, as the data provider computes it.
GlobalMaxInput(P, n, dmax) ==
    [p \in P |-> MaxOver([i \in 1..n |-> dmax[<<p, i>>]], 1..n)]

(***************************************************************************)
(* Sets and sums.                                                          *)
(***************************************************************************)
Days == 1..n_days
Days_cross == Days \X Days

\* sum(f[k] for k in 1..n)
RECURSIVE Sum(_, _)
Sum(f, n) == IF n <= 0 THEN 0 ELSE f[n] + Sum(f, n - 1)

\* sum(f[ij] for ij in (1..n) x (1..n))
SumCross(f, n) == Sum([i \in 1..n |-> Sum([j \in 1..n |-> f[<<i, j>>]], n)], n)

Binary == {0, 1}

(***************************************************************************)
(* Parameter domains (pe.PositiveIntegers, pe.NonNegativeIntegers).        *)
(***************************************************************************)
PositiveIntegers(v) == v \in Int /\ v > 0
NonNegativeIntegers(v) == v \in Int /\ v >= 0

\* Faulty variant: n_extreme_days is not checked against its domain.
ValidCounts_unchecked_extreme(nd, nc, ne) ==
    /\ PositiveIntegers(nd)
    /\ PositiveIntegers(nc)

ValidCounts(nd, nc, ne) ==
    /\ PositiveIntegers(nd)
    /\ PositiveIntegers(nc)
    /\ NonNegativeIntegers(ne)

milp_ValidCounts(nd, nc, ne) ==
    /\ PositiveIntegers(nd)
    /\ PositiveIntegers(nc)
    /\ NonNegativeIntegers(ne)

(***************************************************************************)
(* k_medoids_constrained: parameters computed at construction.             *)
(***************************************************************************)
x_total_rule(tot, n, p) ==
    Sum([i \in 1..n |-> tot[<<p, i>>]], n)

(***************************************************************************)
(* k_medoids_constrained: expressions over the variable values yy, zz, ww. *)
(***************************************************************************)
\* Faulty variant: the extreme term sums z[i,j] over j instead of z[k,i] over k.
x_weight_row_for_column(zz, i) ==
    LET n_days_represented == Sum([j \in Days |-> zz[<<i, j>>]], n_days)
        extreme == 1 - Sum([j \in Days |-> zz[<<i, j>>]], n_days)
    IN  n_days_represented + extreme

x_weight(zz, i) ==
    LET n_days_represented == Sum([j \in Days |-> zz[<<i, j>>]], n_days)
        extreme == 1 - Sum([k \in Days |-> zz[<<k, i>>]], n_days)
    IN  n_days_represented + extreme

x_total_estimated(zz, p) ==
    Sum([i \in Days |-> x_weight(zz, i) * x_daily_tot[<<p, i>>]], n_days)

chosen(yy, zz, i) ==
    yy[i] + (1 - Sum([j \in Days |-> zz[<<i, j>>]], n_days))

(***************************************************************************)
(* k_medoids_constrained: constraint rules.                                *)
(***************************************************************************)
\* Faulty variant: at most n_clusters representatives instead of exactly n_clusters.
total_representative_days_at_most(yy) ==
    Sum(yy, n_days) <= n_clusters

total_representative_days(yy) ==
    Sum(yy, n_days) = n_clusters

each_non_extreme_day_is_represented(zz, j) ==
    Sum([i \in Days |-> zz[<<i, j>>]], n_days) <= 1

\* Faulty variant: the extreme days are not subtracted.
total_represented_days_all(zz) ==
    SumCross(zz, n_days) = n_days

total_represented_days(zz) ==
    SumCross(zz, n_days) = n_days - n_extreme_days

represented_by_representative(yy, zz, i, j) ==
    zz[<<i, j>>] <= yy[i]

\* x_total_estimated[p] <= (1 + rel_tol[p]) * x_total[p], times the denominator
relative_error_upper(zz, p) ==
    x_total_estimated(zz, p) * rel_tol[p][2]
        <= (rel_tol[p][2] + rel_tol[p][1]) * x_total[p]

\* Faulty variant: 1 - rel_tol[p] * x_total[p], the parentheses lost.
relative_error_lower_no_parentheses(zz, p) ==
    x_total_estimated(zz, p) * rel_tol[p][2]
        >= rel_tol[p][2] - rel_tol[p][1] * x_total[p]

\* x_total_estimated[p] >= (1 - rel_tol[p]) * x_total[p], times the denominator
relative_error_lower(zz, p) ==
    x_total_estimated(zz, p) * rel_tol[p][2]
        >= (rel_tol[p][2] - rel_tol[p][1]) * x_total[p]

\* x_daily_max[p,i]*chosen[i] - w[p,i]*min_peak_share[p]*x_max[p] >= 0,
\* times the denominator
preserve_peak(yy, zz, ww, p, i) ==
    x_daily_max[<<p, i>>] * chosen(yy, zz, i) * min_peak_share[p][2]
        - ww[<<p, i>>] * min_peak_share[p][1] * x_max[p] >= 0

at_least_one_preserved(ww, p) ==
    Sum([i \in Days |-> ww[<<p, i>>]], n_days) >= 1

total_distance(zz) ==
    SumCross([ij \in Days_cross |-> distance[ij] * zz[ij]], n_days)

(***************************************************************************)
(* k_medoids_milp: constraint rules and objective of the plain model.      *)
(***************************************************************************)
milp_total_representative_days(yy) ==
    Sum(yy, n_days) = n_clusters

milp_each_non_extreme_day_is_represented(zz, j) ==
    Sum([i \in Days |-> zz[<<i, j>>]], n_days) <= 1

milp_total_represented_days(zz) ==
    SumCross(zz, n_days) = n_days - n_extreme_days

milp_represented_by_representative(yy, zz, i, j) ==
    zz[<<i, j>>] <= yy[i]

milp_total_distance(zz) ==
    SumCross([ij \in Days_cross |-> distance[ij] * zz[ij]], n_days)

(***************************************************************************)
(* Constraint components by name.                                          *)
(***************************************************************************)
BaseConstraints ==
    {"total_representative_days", "each_non_extreme_day_is_represented",
     "total_represented_days", "represented_by_representative"}
TotalConstraints == {"relative_error_upper", "relative_error_lower"}
PeakConstraints == {"preserve_peak", "at_least_one_preserved"}
PropertyConstraints == TotalConstraints \cup PeakConstraints
AllConstraints == BaseConstraints \cup PropertyConstraints

\* Constraint c of the constrained model holds for the values yy, zz, ww.
Holds(c, yy, zz, ww) ==
    CASE c = "total_representative_days" ->
            total_representative_days(yy)
      [] c = "each_non_extreme_day_is_represented" ->
            \A j \in Days : each_non_extreme_day_is_represented(zz, j)
      [] c = "total_represented_days" ->
            total_represented_days(zz)
      [] c = "represented_by_representative" ->
            \A ij \in Days_cross :
                represented_by_representative(yy, zz, ij[1], ij[2])
      [] c = "relative_error_upper" ->
            \A p \in Properties : relative_error_upper(zz, p)
      [] c = "relative_error_lower" ->
            \A p \in Properties : relative_error_lower(zz, p)
      [] c = "preserve_peak" ->
            \A p \in Properties : \A i \in Days :
                preserve_peak(yy, zz, ww, p, i)
      [] c = "at_least_one_preserved" ->
            \A p \in Properties : at_least_one_preserved(ww, p)

\* Constraint c of the plain model holds for the values yy, zz.
milp_Holds(c, yy, zz) ==
    CASE c = "total_representative_days" ->
            milp_total_representative_days(yy)
      [] c = "each_non_extreme_day_is_represented" ->
            \A j \in Days : milp_each_non_extreme_day_is_represented(zz, j)
      [] c = "total_represented_days" ->
            milp_total_represented_days(zz)
      [] c = "represented_by_representative" ->
            \A ij \in Days_cross :
                milp_represented_by_representative(yy, zz, ij[1], ij[2])

ModelHolds(c, yy, zz, ww) ==
    IF kind = "plain" THEN milp_Holds(c, yy, zz) ELSE Holds(c, yy, zz, ww)

Objective(zz) ==
    IF kind = "plain" THEN milp_total_distance(zz) ELSE total_distance(zz)

(***************************************************************************)
(* _apply_options: the BuildAction that applies the options.               *)
(***************************************************************************)
\* Faulty variant: at_least_one_preserved is left active when the peak option is off.
apply_options_active_one_left(opt, act) ==
    (act \ (IF ~opt.preserve_total_values THEN TotalConstraints ELSE {}))
        \ (IF ~opt.preserve_peak_values THEN {"preserve_peak"} ELSE {})

apply_options_active(opt, act) ==
    (act \ (IF ~opt.preserve_total_values THEN TotalConstraints ELSE {}))
        \ (IF ~opt.preserve_peak_values THEN PeakConstraints ELSE {})

\* Faulty variant: w is never fixed.
apply_options_fixed_never(opt, fx, P, n) == fx

apply_options_fixed(opt, fx, P, n) ==
    IF ~opt.preserve_peak_values
    THEN fx \cup {<<"w", p, i>> : p \in P, i \in 1..n}
    ELSE fx

apply_options_w(opt, wv) ==
    IF ~opt.preserve_peak_values
    THEN [pi \in DOMAIN wv |-> 0]
    ELSE wv

(***************************************************************************)
(* What a solver may return: values of the binary variables that satisfy   *)
(* every active constraint and leave the fixed variables at their value.   *)
(***************************************************************************)
WConstraints == PeakConstraints

FeasibleYZ(yy, zz) ==
    \A c \in active \ WConstraints : ModelHolds(c, yy, zz, w)

RespectsFixed(ww) ==
    \A pi \in DOMAIN ww : <<"w", pi[1], pi[2]>> \in fixed => ww[pi] = w[pi]

Feasible(yy, zz, ww) ==
    /\ RespectsFixed(ww)
    /\ \A c \in active \cap WConstraints : ModelHolds(c, yy, zz, ww)
    /\ FeasibleYZ(yy, zz)

\* The search is organised day by day: the values z[., j] of one day j are
\* kept only if the constraints that read nothing but that column allow them.
Column(col, j) ==
    [ij \in Days_cross |-> IF ij[2] = j THEN col[ij[1]] ELSE 0]

ColumnAllowed(yy, col, j) ==
    /\ "each_non_extreme_day_is_represented" \in active =>
           IF kind = "plain"
           THEN milp_each_non_extreme_day_is_represented(Column(col, j), j)
           ELSE each_non_extreme_day_is_represented(Column(col, j), j)
    /\ "represented_by_representative" \in active =>
           \A i \in Days :
               IF kind = "plain"
               THEN milp_represented_by_representative(yy, Column(col, j), i, j)
               ELSE represented_by_representative(yy, Column(col, j), i, j)

RECURSIVE ZChoicesUpTo(_, _)
ZChoicesUpTo(yy, j) ==
    IF j = 0 THEN {[ij \in Days_cross |-> 0]}
    ELSE {[ij \in Days_cross |-> IF ij[2] = j THEN col[ij[1]] ELSE m[ij]] :
              m \in ZChoicesUpTo(yy, j - 1),
              col \in {c \in [Days -> Binary] : ColumnAllowed(yy, c, j)}}

YChoices ==
    {yy \in [Days -> Binary] :
        "total_representative_days" \in active =>
            ModelHolds("total_representative_days", yy, z, w)}

ZChoices(yy) == ZChoicesUpTo(yy, n_days)

WChoices == {ww \in [DOMAIN w -> Binary] : RespectsFixed(ww)}

HasSolution ==
    \E yy \in YChoices : \E zz \in ZChoices(yy) :
        /\ FeasibleYZ(yy, zz)
        /\ \E ww \in WChoices : Feasible(yy, zz, ww)

(***************************************************************************)
(* clustering_utils.extract_results: y as a series, z as a matrix.         *)
(***************************************************************************)
extract_results(yy, zz) ==
    <<[i \in Days |-> yy[i]],
      [i \in Days |-> [j \in Days |-> zz[<<i, j>>]]]>>

(***************************************************************************)
(* Initial state: create_model(...) has returned the abstract model.       *)
(***************************************************************************)
Init ==
    /\ pc = "abstract"
    /\ \/ kind = "plain" /\ options = [preserve_total_values |-> FALSE,
                                       preserve_peak_values |-> FALSE]
       \/ kind = "constrained" /\ options \in Flags
    /\ n_days = 0 /\ n_clusters = 0 /\ n_extreme_days = 0
    /\ Properties = {}
    /\ distance = << >> /\ x_daily_tot = << >> /\ x_daily_max = << >>
    /\ x_max = << >> /\ x_total = << >> /\ rel_tol = << >>
    /\ min_peak_share = << >>
    /\ active = {} /\ fixed = {}
    /\ y = << >> /\ z = << >> /\ w = << >>

(***************************************************************************)
(* create_instance on the plain model.                                     *)
(***************************************************************************)
CreatePlainInstance ==
    /\ pc = "abstract" /\ kind = "plain"
    /\ \E nd \in CountInputs, nc \in CountInputs, ne \in ExtremeInputs,
          off \in DistanceOffsets :
        /\ milp_ValidCounts(nd, nc, ne)
        /\ n_days' = nd /\ n_clusters' = nc /\ n_extreme_days' = ne
        /\ distance' = DistanceInput(nd, off)
        /\ y' = [i \in 1..nd |-> 0]
        /\ z' = [ij \in (1..nd) \X (1..nd) |-> 0]
        /\ active' = BaseConstraints
    /\ pc' = "instance"
    /\ UNCHANGED <<kind, options, Properties, x_daily_tot, x_daily_max, x_max,
                   x_total, rel_tol, min_peak_share, fixed, w>>

(***************************************************************************)
(* create_instance on the constrained model; the BuildAction apply_options *)
(* is its last component.                                                  *)
(***************************************************************************)
CreateConstrainedInstance ==
    /\ pc = "abstract" /\ kind = "constrained"
    /\ \E nd \in CountInputs, nc \in CountInputs, ne \in ExtremeInputs,
          off \in DistanceOffsets, k \in ProfileKinds,
          tol \in ToleranceInputs :
        LET P == PropertyNames
            tot == ProfileInput(P, nd, k)
            dmax == ProfileInput(P, nd, k)
            w0 == [pi \in P \X (1..nd) |-> NoValue]
        IN  /\ ValidCounts(nd, nc, ne)
            /\ n_days' = nd /\ n_clusters' = nc /\ n_extreme_days' = ne
            /\ Properties' = P
            /\ distance' = DistanceInput(nd, off)
            /\ x_daily_tot' = tot
            /\ x_daily_max' = dmax
            /\ x_max' = GlobalMaxInput(P, nd, dmax)
            /\ x_total' = [p \in P |-> x_total_rule(tot, nd, p)]
            /\ rel_tol' = [p \in P |-> tol.rel_tol]
            /\ min_peak_share' = [p \in P |-> tol.min_peak_share]
            /\ y' = [i \in 1..nd |-> 0]
            /\ z' = [ij \in (1..nd) \X (1..nd) |-> 0]
            /\ active' = apply_options_active(options, AllConstraints)
            /\ fixed' = apply_options_fixed(options, {}, P, nd)
            /\ w' = apply_options_w(options, w0)
    /\ pc' = "instance"
    /\ UNCHANGED <<kind, options>>

(***************************************************************************)
(* A parameter outside its domain: construction raises, no instance.       *)
(***************************************************************************)
CreateInstanceFails ==
    /\ pc = "abstract"
    /\ \E nd \in CountInputs, nc \in CountInputs, ne \in ExtremeInputs :
        /\ IF kind = "plain" THEN ~milp_ValidCounts(nd, nc, ne)
                             ELSE ~ValidCounts(nd, nc, ne)
        /\ n_days' = nd /\ n_clusters' = nc /\ n_extreme_days' = ne
    /\ pc' = "error"
    /\ UNCHANGED <<kind, options, Properties, distance, x_daily_tot,
                   x_daily_max, x_max, x_total, rel_tol, min_peak_share,
                   active, fixed, y, z, w>>

(***************************************************************************)
(* _apply_options run again on the instance, with the same options.        *)
(***************************************************************************)
ApplyOptions ==
    /\ pc = "instance" /\ kind = "constrained"
    /\ active' = apply_options_active(options, active)
    /\ fixed' = apply_options_fixed(options, fixed, Properties, n_days)
    /\ w' = apply_options_w(options, w)
    /\ UNCHANGED <<pc, kind, options, params, y, z>>

(***************************************************************************)
(* The solver: loads a feasible assignment, or reports infeasibility.      *)
(***************************************************************************)
Solve ==
    /\ pc = "instance"
    /\ \E yy \in YChoices : \E zz \in ZChoices(yy) :
        /\ FeasibleYZ(yy, zz)
        /\ \E ww \in WChoices :
            /\ Feasible(yy, zz, ww)
            /\ y' = yy /\ z' = zz /\ w' = ww
    /\ pc' = "solved"
    /\ UNCHANGED <<kind, options, params, active, fixed>>

SolveInfeasible ==
    /\ pc = "instance"
    /\ ~HasSolution
    /\ pc' = "infeasible"
    /\ UNCHANGED <<kind, options, params, active, fixed, y, z, w>>

Next ==
    \/ CreatePlainInstance
    \/ CreateConstrainedInstance
    \/ CreateInstanceFails
    \/ ApplyOptions
    \/ Solve
    \/ SolveInfeasible

Spec == Init /\ [][Next]_vars

(***************************************************************************)
(* Vocabulary of the properties below.                                     *)
(***************************************************************************)
Built == pc \in {"instance", "solved", "infeasible"}
Solved == pc = "solved"
Constrained == kind = "constrained"

\* Day i is assigned to some representative.
Covered(i) == \E k \in Days : z[<<k, i>>] = 1
\* Day i is a representative, or an extreme day that no representative covers.
IsChosen(i) == y[i] = 1 \/ ~Covered(i)
\* The representatives day j is assigned to.
RepresentativesOf(j) == {i \in Days : z[<<i, j>>] = 1}
\* The true total of property p, summed from the daily totals.
TrueTotal(p) == Sum([i \in Days |-> x_daily_tot[<<p, i>>]], n_days)

IdentityY == [i \in Days |-> 1]
IdentityZ == [ij \in Days_cross |-> IF ij[1] = ij[2] THEN 1 ELSE 0]

\* The least objective value over the assignments a solver may return.
ObjectiveValues ==
    UNION {{Objective(zz) : zz \in {m \in ZChoices(yy) :
                                      \E ww \in WChoices : Feasible(yy, m, ww)}} :
           yy \in YChoices}
OptimalObjective ==
    CHOOSE v \in ObjectiveValues : \A u \in ObjectiveValues : v <= u

(***************************************************************************)
(* C1. With preserve_peak_values, every solved assignment has, for every   *)
(* property p, a chosen day (a representative or an uncovered extreme day) *)
(* whose daily maximum is at least min_peak_share[p] * x_max[p].           *)
(***************************************************************************)
C1_PeakOnChosenDay ==
    (Solved /\ Constrained /\ options.preserve_peak_values) =>
        \A p \in Properties : \E i \in Days :
            /\ IsChosen(i)
            /\ x_daily_max[<<p, i>>] * min_peak_share[p][2]
                   >= min_peak_share[p][1] * x_max[p]

(***************************************************************************)
(* C2. With preserve_total_values, every solved assignment satisfies the   *)
(* base constraints and keeps, for every property p, the estimate          *)
(* sum_i weight(i) * x_daily_tot[p,i] within                               *)
(* [(1 - rel_tol[p]) * total, (1 + rel_tol[p]) * total] of the true total  *)
(* sum_i x_daily_tot[p,i]; with rel_tol[p] = 0 the estimate is the true    *)
(* total exactly, so an instance where no base-feasible assignment         *)
(* reproduces the total is never solved.                                   *)
(***************************************************************************)
C2_TotalWithinTolerance ==
    (Solved /\ Constrained /\ options.preserve_total_values) =>
        /\ \A c \in BaseConstraints : Holds(c, y, z, w)
        /\ \A p \in Properties :
            LET est == x_total_estimated(z, p)
                num == rel_tol[p][1]
                den == rel_tol[p][2]
            IN  /\ (den - num) * TrueTotal(p) <= est * den
                /\ est * den <= (den + num) * TrueTotal(p)
                /\ num = 0 => est = TrueTotal(p)

C2_Witness ==
    /\ Solved /\ Constrained /\ options.preserve_total_values
    /\ n_days = 3
    /\ \E p \in Properties :
        /\ rel_tol[p][1] # 0
        /\ x_total_estimated(z, p) # TrueTotal(p)

(***************************************************************************)
(* C3. With both flags false the constrained instance is the plain         *)
(* k-medoids model: only the four base constraints are active (none that   *)
(* is indexed by a property), every assignment the constrained instance    *)
(* admits satisfies the plain model's constraints with the same objective  *)
(* value, and every assignment the plain instance admits satisfies the     *)
(* constraints the constrained model keeps active under these flags, with  *)
(* the same objective value.                                               *)
(***************************************************************************)
C3_FlagsOffIsPlainModel ==
    /\ (Built /\ Constrained /\ ~options.preserve_total_values
          /\ ~options.preserve_peak_values) =>
        /\ active = BaseConstraints
        /\ active \cap PropertyConstraints = {}
        /\ Solved =>
            /\ \A c \in BaseConstraints : milp_Holds(c, y, z)
            /\ milp_total_distance(z) = total_distance(z)
    /\ (Solved /\ kind = "plain") =>
        /\ \A c \in apply_options_active(options, AllConstraints) :
               Holds(c, y, z, w)
        /\ apply_options_active(options, AllConstraints) = active
        /\ total_distance(z) = milp_total_distance(z)

C3_Witness ==
    /\ Solved /\ Constrained
    /\ ~options.preserve_total_values /\ ~options.preserve_peak_values
    /\ n_days = 3 /\ n_clusters = 2 /\ n_extreme_days = 1

(***************************************************************************)
(* C4. In every solved assignment with 0 <= n_extreme_days <= n_days,      *)
(* exactly n_extreme_days days are assigned to no representative, every    *)
(* other day is assigned to exactly one day, which is a representative,    *)
(* and the values read back by extract_results show the same.              *)
(***************************************************************************)
C4_ExactCoverage ==
    (Solved /\ 0 <= n_extreme_days /\ n_extreme_days <= n_days) =>
        LET res == extract_results(y, z)
        IN  /\ Cardinality({j \in Days : RepresentativesOf(j) = {}})
                   = n_extreme_days
            /\ \A j \in Days :
                RepresentativesOf(j) # {} =>
                    /\ Cardinality(RepresentativesOf(j)) = 1
                    /\ \A i \in RepresentativesOf(j) : y[i] = 1
                    /\ Cardinality({i \in Days : res[2][i][j] = 1
                                                   /\ res[1][i] = 1}) = 1

C4_Witness ==
    /\ Solved /\ n_days = 3 /\ n_extreme_days = 1 /\ n_clusters = 2
    /\ \E j \in Days : RepresentativesOf(j) = {}
    /\ \E i \in Days : Cardinality({j \in Days : z[<<i, j>>] = 1}) = 2

(***************************************************************************)
(* C5. In every solved assignment of the constrained model, chosen(i) is   *)
(* 1 when day i is a representative or an uncovered extreme day, and 0     *)
(* otherwise.                                                              *)
(***************************************************************************)
C5_ChosenIsIndicator ==
    (Solved /\ Constrained) =>
        \A i \in Days : chosen(y, z, i) = IF IsChosen(i) THEN 1 ELSE 0

(***************************************************************************)
(* C6. In every solved assignment of the constrained model, the days with  *)
(* chosen(i) = 1 and y[i] = 0 are exactly the uncovered days that are not  *)
(* representatives; none of them is assigned to a representative and there *)
(* are at most n_extreme_days of them.                                     *)
(***************************************************************************)
C6_ExtremeDaysIdentified ==
    (Solved /\ Constrained) =>
        LET S == {i \in Days : chosen(y, z, i) = 1 /\ y[i] = 0}
        IN  /\ S = {i \in Days : ~Covered(i) /\ y[i] = 0}
            /\ \A i \in S : ~Covered(i)
            /\ Cardinality(S) <= n_extreme_days

C8_ActivationState ==
    (Built /\ Constrained) =>
        /\ \A c \in TotalConstraints :
               c \in active <=> options.preserve_total_values
        /\ \A c \in PeakConstraints :
               c \in active <=> options.preserve_peak_values
        /\ \A pi \in DOMAIN w :
               /\ <<"w", pi[1], pi[2]>> \in fixed
                      <=> ~options.preserve_peak_values
               /\ ~options.preserve_peak_values => w[pi] = 0
        /\ DOMAIN w = Properties \X Days
        /\ BaseConstraints \subseteq active
        /\ \A f \in fixed : f[1] = "w"

C8_Witness ==
    /\ pc = "instance" /\ Constrained /\ n_days = 3
    /\ options.preserve_total_values /\ ~options.preserve_peak_values
    /\ fixed # {}

(***************************************************************************)
(* C9 as stated. With n_clusters = n_days and n_extreme_days = 0, every    *)
(* solved assignment has y[i] = 1 for all i, z[i,i] = 1 and z[i,j] = 0 for *)
(* i # j, and the optimal objective is 0.                                  *)
(***************************************************************************)
C9_EveryDayOwnRepresentative ==
    (Solved /\ n_clusters = n_days /\ n_extreme_days = 0) =>
        /\ y = IdentityY
        /\ z = IdentityZ
        /\ OptimalObjective = 0

(***************************************************************************)
(* C9 amended. With n_clusters = n_days and n_extreme_days = 0, every      *)
(* solved assignment has y[i] = 1 for all i and assigns every day to       *)
(* exactly one day, not necessarily itself; the assignment of every day to *)
(* itself is feasible, and when the distance is non-negative with a zero   *)
(* diagonal it has objective 0 and no assignment has a smaller one.        *)
(***************************************************************************)
C9_AllDaysRepresentatives ==
    /\ (Solved /\ n_clusters = n_days /\ n_extreme_days = 0) =>
        /\ y = IdentityY
        /\ \A j \in Days : Cardinality(RepresentativesOf(j)) = 1
        /\ (\A ij \in Days_cross : distance[ij] >= 0) => Objective(z) >= 0
    /\ (Built /\ n_clusters = n_days /\ n_extreme_days = 0) =>
        /\ \E ww \in WChoices : Feasible(IdentityY, IdentityZ, ww)
        /\ (\A i \in Days : distance[<<i, i>>] = 0) =>
               Objective(IdentityZ) = 0

C9_Witness ==
    /\ Solved /\ n_days = 3 /\ n_clusters = 3 /\ n_extreme_days = 0
    /\ z # IdentityZ
    /\ \A i \in Days : distance[<<i, i>>] = 0

(***************************************************************************)
(* C10. In every solved assignment of the constrained model the weights    *)
(* x_weight[i] are non-negative integers that sum to n_days, and a day     *)
(* that is not a representative and is assigned to one has weight 0.       *)
(***************************************************************************)
C10_WeightsPartitionDays ==
    (Solved /\ Constrained) =>
        /\ \A i \in Days : x_weight(z, i) \in Nat
        /\ Sum([i \in Days |-> x_weight(z, i)], n_days) = n_days
        /\ \A i \in Days : (y[i] = 0 /\ Covered(i)) => x_weight(z, i) = 0

C10_Witness ==
    /\ Solved /\ Constrained /\ n_days = 3 /\ n_extreme_days = 1
    /\ \E i \in Days : y[i] = 0 /\ Covered(i)
    /\ \E i \in Days : x_weight(z, i) = 2

====
